---- MODULE Spec2Model ----
(***************************************************************************)
(* Model of the client-side enrichment orchestration: the useEnrichment    *)
(* hook (duplicate gate, pipeline run, step ledger) and the API client it  *)
(* drives (checkDuplicate, analyzeUrlV2).                                  *)
(*                                                                         *)
(* JavaScript runs each handler and each continuation after an await to    *)
(* its next await without interleaving, so every action below is one such  *)
(* uninterrupted segment.  Strings the code manipulates character by       *)
(* character (the submitted URL) are sequences of one-character strings;   *)
(* strings it only stores or compares (messages, step names) are TLA+      *)
(* strings.  A nullable value is Null or Some(v).                          *)
(***************************************************************************)
EXTENDS Integers, Sequences, FiniteSets, TLC

\* ------------------------------------------------------------------ bounds
\* form submissions (analyze calls) in one behaviour
MaxCalls == 2
\* complete lines the response streams of one behaviour deliver
MaxLines == 2
\* step events fed to the step ledger on its own
MaxFeed == 3
\* complete lines in the content of a stream taken on its own
MaxFrames == 2
\* complete lines delivered to the run of a submission taken on its own
MaxEvents == 3

\* ------------------------------------------------------------ nullable values
Null == <<>>
Some(v) == <<v>>

\* JavaScript truthiness of a nullable string held as a character sequence
TruthyStr(o) == o # Null /\ o[1] # <<>>

\* ------------------------------------------------------------------ inputs
\* "https://Ex.co/p"
UrlA == <<"h","t","t","p","s",":","/","/","E","x",".","c","o","/","p">>
\* "shop.io"
UrlB == <<"s","h","o","p",".","i","o">>
\* what the operator types into the form: "https://Ex.co/p" and " shop.io "
Inputs == {UrlA, <<" ">> \o UrlB \o <<" ">>}

\* ------------------------------------------------- analyze: domain extraction
Whitespace == {" ", "\t", "\n", "\r"}

RECURSIVE TrimStart(_)
TrimStart(s) ==
  IF s # <<>> /\ Head(s) \in Whitespace THEN TrimStart(Tail(s)) ELSE s

RECURSIVE TrimEnd(_)
TrimEnd(s) ==
  IF s # <<>> /\ s[Len(s)] \in Whitespace
    THEN TrimEnd(SubSeq(s, 1, Len(s) - 1)) ELSE s

\* String.prototype.trim
Trim(s) == TrimEnd(TrimStart(s))

IsPrefix(p, s) == Len(p) <= Len(s) /\ SubSeq(s, 1, Len(p)) = p

\* replace(/^https?:\/\//, '') : the pattern is case-sensitive and anchored
StripScheme(s) ==
  LET http == <<"h","t","t","p",":","/","/">>
      https == <<"h","t","t","p","s",":","/","/">>
  IN  IF IsPrefix(https, s) THEN SubSeq(s, Len(https) + 1, Len(s))
      ELSE IF IsPrefix(http, s) THEN SubSeq(s, Len(http) + 1, Len(s))
      ELSE s

\* split('/')[0] : the text before the first '/', the whole text without one
RECURSIVE BeforeSlash(_)
BeforeSlash(s) ==
  IF s = <<>> \/ Head(s) = "/" THEN <<>>
  ELSE <<Head(s)>> \o BeforeSlash(Tail(s))

Upper == <<"A","B","C","D","E","F","G","H","I","J","K","L","M",
           "N","O","P","Q","R","S","T","U","V","W","X","Y","Z">>
Lower == <<"a","b","c","d","e","f","g","h","i","j","k","l","m",
           "n","o","p","q","r","s","t","u","v","w","x","y","z">>

LowerChar(c) ==
  IF \E i \in 1..Len(Upper) : Upper[i] = c
    THEN Lower[CHOOSE i \in 1..Len(Upper) : Upper[i] = c]
    ELSE c

\* String.prototype.toLowerCase
ToLowerCase(s) == [i \in 1..Len(s) |-> LowerChar(s[i])]

\* the lookup key analyze derives from the submitted text
ExtractDomain(url) == ToLowerCase(BeforeSlash(StripScheme(Trim(url))))

\* ------------------------------------------------------- api.ts: checkDuplicate
\* What the lookup's fetch can come back with: sent = FALSE is a request that
\* could not be sent (fetch rejects); json = FALSE is a body JSON cannot parse.
LookupResponses(domain) ==
  { [sent |-> FALSE, status |-> 0, json |-> FALSE, exists |-> FALSE, domain |-> Null],
    [sent |-> TRUE, status |-> 500, json |-> TRUE, exists |-> FALSE, domain |-> Null],
    [sent |-> TRUE, status |-> 200, json |-> FALSE, exists |-> FALSE, domain |-> Null],
    [sent |-> TRUE, status |-> 200, json |-> TRUE, exists |-> FALSE, domain |-> Null],
    [sent |-> TRUE, status |-> 200, json |-> TRUE, exists |-> TRUE, domain |-> Some(domain)] }

\* Response.ok
ResponseOk(resp) == resp.status \in 200..299

NotExists == [exists |-> FALSE, domain |-> Null]

\* The promise checkDuplicate returns: fulfilled with a DuplicateCheckResult, or
\* rejected.  `return response.json()` hands the body promise back without
\* awaiting it inside the try block, so a body that fails to parse rejects the
\* returned promise and the catch clause never sees it.
checkDuplicate(resp) ==
  IF ~resp.sent THEN [rejected |-> FALSE, value |-> NotExists]
  ELSE IF ~ResponseOk(resp) THEN [rejected |-> FALSE, value |-> NotExists]
  ELSE IF ~resp.json THEN [rejected |-> TRUE, value |-> NotExists]
  ELSE [rejected |-> FALSE, value |-> [exists |-> resp.exists, domain |-> resp.domain]]

\* --------------------------------------------- api.ts: analyzeUrlV2, the request
\* What the pipeline's fetch can come back with.  body: the response has a
\* readable body stream.  json: how the body of a failed response parses
\* ("invalid", "null", "object"); detail: the detail field of that object.
ErrorBodies ==
  { [json |-> "invalid", detail |-> Null],
    [json |-> "null", detail |-> Null],
    [json |-> "object", detail |-> Null],
    [json |-> "object", detail |-> Some("")],
    [json |-> "object", detail |-> Some("boom")] }

PipelineResponses ==
  { [sent |-> FALSE, status |-> 0, body |-> FALSE, json |-> "invalid", detail |-> Null],
    [sent |-> TRUE, status |-> 200, body |-> TRUE, json |-> "invalid", detail |-> Null],
    [sent |-> TRUE, status |-> 200, body |-> FALSE, json |-> "invalid", detail |-> Null] }
  \cup { [sent |-> TRUE, status |-> 500, body |-> TRUE, json |-> b.json, detail |-> b.detail] :
           b \in ErrorBodies }
  \cup { [sent |-> TRUE, status |-> 404, body |-> TRUE, json |-> "object", detail |-> Null] }

\* JavaScript truthiness of an optional string field
Truthy(o) == o # Null /\ o[1] # ""

\* message of the TypeError a rejected fetch or a failed stream read carries
FetchFailedMessage == "Failed to fetch"
StreamFailedMessage == "network error"
\* message of the TypeError `error.detail` raises when the body is JSON null
NullBodyMessage == "Cannot read properties of null (reading 'detail')"

\* response.json().catch(() => ({ detail: 'Analysis failed' }))
ErrorBody(resp) ==
  IF resp.json = "invalid" THEN [json |-> "object", detail |-> Some("Analysis failed")]
  ELSE [json |-> resp.json, detail |-> resp.detail]

\* mutant of HttpErrorMessage: one generic message whenever detail is unusable
HttpErrorMessageGeneric(resp) ==
  LET error == ErrorBody(resp)
  IN  IF error.json = "null" THEN NullBodyMessage
      ELSE IF Truthy(error.detail) THEN error.detail[1]
      ELSE "Analysis failed"

\* the message of the Error thrown for a response that is not ok
HttpErrorMessage(resp) ==
  LET error == ErrorBody(resp)
  IN  IF error.json = "null" THEN NullBodyMessage
      ELSE IF Truthy(error.detail) THEN error.detail[1]
      ELSE "HTTP " \o ToString(resp.status) \o ": Analysis failed"

\* mutant of SetupFailure: the check for a missing body is left out
SetupFailureIgnoresMissingBody(resp) ==
  IF ~resp.sent THEN Some(FetchFailedMessage)
  ELSE IF ~ResponseOk(resp) THEN Some(HttpErrorMessage(resp))
  ELSE Null

\* How establishing the stream ends: Null when the read loop is entered,
\* otherwise the message of the error analyzeUrlV2 rejects with.
SetupFailure(resp) ==
  IF ~resp.sent THEN Some(FetchFailedMessage)
  ELSE IF ~ResponseOk(resp) THEN Some(HttpErrorMessage(resp))
  ELSE IF ~resp.body THEN Some("No response body")
  ELSE Null

\* ------------------------------------------- api.ts: analyzeUrlV2, the read loop
StepNames == {"scrape", "social", "contact"}

StepMsg(name, status, ms) ==
  [type |-> "step", step |-> name, status |-> status, duration_ms |-> ms,
   detail |-> Null, data |-> Null]

\* the step events of a stream, as JSON payloads
StepMessages ==
  { StepMsg(n, "running", Null) : n \in StepNames }
  \cup { StepMsg(n, "ok", Some(120)) : n \in StepNames }

\* the JSON payloads a line of a response stream carries
Messages ==
  { StepMsg("scrape", "running", Null), StepMsg("scrape", "ok", Some(120)) }
  \cup { [type |-> "result", step |-> "", status |-> "", duration_ms |-> Null,
          detail |-> Null, data |-> Some([domain |-> "x.com"])] }
  \cup { [type |-> "error", step |-> "", status |-> "", duration_ms |-> Null,
          detail |-> d, data |-> Null] : d \in {Some("pipeline failed")} }

\* A complete line of the stream: whether it starts with "data: ", whether the
\* rest parses as JSON, and the parsed value.
DataLine(m) == [prefix |-> TRUE, json |-> TRUE, msg |-> m]

Lines ==
  { DataLine(m) : m \in Messages }
  \cup { [prefix |-> FALSE, json |-> TRUE, msg |-> StepMsg("scrape", "ok", Some(120))] }

\* mutant of Dispatch: a message of no known type is reported as an error
DispatchUnknownAsError(line) ==
  LET msg == line.msg
      none == [cb |-> "none", step |-> Null, result |-> Null, error |-> Null]
  IN  IF ~line.prefix THEN none
      ELSE IF ~line.json THEN none
      ELSE IF msg.type = "step"
        THEN [cb |-> "onStep",
              step |-> Some([step |-> msg.step, status |-> msg.status,
                             duration_ms |-> msg.duration_ms, detail |-> msg.detail]),
              result |-> Null, error |-> Null]
      ELSE IF msg.type = "result"
        THEN [cb |-> "onResult", step |-> Null, result |-> msg.data, error |-> Null]
      ELSE [cb |-> "onError", step |-> Null, result |-> Null,
            error |-> IF Truthy(msg.detail) THEN msg.detail
                      ELSE Some("Unknown pipeline error")]

\* the callback one line fires, with its argument ("none": the line is skipped)
\* mutant of Dispatch: onError is given msg.detail as it is
DispatchErrorWithoutFallback(line) ==
  LET msg == line.msg
      none == [cb |-> "none", step |-> Null, result |-> Null, error |-> Null]
  IN  IF ~line.prefix THEN none
      ELSE IF ~line.json THEN none
      ELSE IF msg.type = "step"
        THEN [cb |-> "onStep",
              step |-> Some([step |-> msg.step, status |-> msg.status,
                             duration_ms |-> msg.duration_ms, detail |-> msg.detail]),
              result |-> Null, error |-> Null]
      ELSE IF msg.type = "result"
        THEN [cb |-> "onResult", step |-> Null, result |-> msg.data, error |-> Null]
      ELSE IF msg.type = "error"
        THEN [cb |-> "onError", step |-> Null, result |-> Null, error |-> msg.detail]
      ELSE none

Dispatch(line) ==
  LET msg == line.msg
      none == [cb |-> "none", step |-> Null, result |-> Null, error |-> Null]
  IN  IF ~line.prefix THEN none
      ELSE IF ~line.json THEN none
      ELSE IF msg.type = "step"
        THEN [cb |-> "onStep",
              step |-> Some([step |-> msg.step, status |-> msg.status,
                             duration_ms |-> msg.duration_ms, detail |-> msg.detail]),
              result |-> Null, error |-> Null]
      ELSE IF msg.type = "result"
        THEN [cb |-> "onResult", step |-> Null, result |-> msg.data, error |-> Null]
      ELSE IF msg.type = "error"
        THEN [cb |-> "onError", step |-> Null, result |-> Null,
              error |-> IF Truthy(msg.detail) THEN msg.detail
                        ELSE Some("Unknown pipeline error")]
      ELSE none

\* sequences of at most n lines
RECURSIVE SeqsUpTo(_, _)
SeqsUpTo(S, n) ==
  IF n = 0 THEN {<<>>}
  ELSE LET shorter == SeqsUpTo(S, n - 1)
       IN  shorter \cup { Append(s, x) : s \in {t \in shorter : Len(t) = n - 1}, x \in S }

\* ================================================== the read loop on its own
\* Text is a sequence of characters, each a string; "U+00E9" is the character
\* e-acute and "U+FFFD" the replacement character.  A byte is written as the
\* ASCII character it encodes, and "C3", "A9" are the two bytes of "U+00E9".

\* JSON texts a line can carry after "data: "
StepText ==
  <<"{", "\"", "t", "y", "p", "e", "\"", ":", "\"", "s", "t", "e", "p", "\"", ",", "\"",
    "s", "t", "e", "p", "\"", ":", "\"", "a", "\"", "}">>

ResultText ==
  <<"{", "\"", "t", "y", "p", "e", "\"", ":", "\"", "r", "e", "s", "u", "l", "t", "\"",
    ",", "\"", "d", "a", "t", "a", "\"", ":", "{", "}", "}">>

ErrorText ==
  <<"{", "\"", "t", "y", "p", "e", "\"", ":", "\"", "e", "r", "r", "o", "r", "\"", ",",
    "\"", "d", "e", "t", "a", "i", "l", "\"", ":", "\"", "U+00E9", "\"", "}">>

OtherTypeText ==
  <<"{", "\"", "t", "y", "p", "e", "\"", ":", "1", "}">>

NoTypeText ==
  <<"{", "}">>

BrokenText ==
  <<"{">>

DataPrefix == <<"d", "a", "t", "a", ":", " ">>

NoMsg ==
  [type |-> "", step |-> "", status |-> "", duration_ms |-> Null, detail |-> Null,
   data |-> Null]

\* JSON.parse, on the texts above: the value for the texts that are JSON, a
\* SyntaxError (ok FALSE) for any fragment of them.  A field the text does not
\* have is undefined ("" or Null); a type that is not a string is "?".
JsonParse(text) ==
  IF text = StepText
    THEN [ok |-> TRUE, msg |-> [NoMsg EXCEPT !.type = "step", !.step = "a"]]
  ELSE IF text = ResultText
    THEN [ok |-> TRUE, msg |-> [NoMsg EXCEPT !.type = "result",
                                             !.data = Some([domain |-> ""])]]
  ELSE IF text = ErrorText
    THEN [ok |-> TRUE, msg |-> [NoMsg EXCEPT !.type = "error",
                                             !.detail = Some("U+00E9")]]
  ELSE IF text = OtherTypeText
    THEN [ok |-> TRUE, msg |-> [NoMsg EXCEPT !.type = "?"]]
  ELSE IF text = NoTypeText
    THEN [ok |-> TRUE, msg |-> NoMsg]
  ELSE [ok |-> FALSE, msg |-> NoMsg]

\* One line of the split buffer, as the loop sees it.  An empty payload is
\* skipped before JSON.parse, which would throw on it: both leave json FALSE.
ParseLine(line) ==
  IF ~IsPrefix(DataPrefix, line)
    THEN [prefix |-> FALSE, json |-> FALSE, msg |-> NoMsg]
  ELSE LET jsonStr == Trim(SubSeq(line, Len(DataPrefix) + 1, Len(line)))
       IN  IF jsonStr = <<>>
             THEN [prefix |-> TRUE, json |-> FALSE, msg |-> NoMsg]
           ELSE [prefix |-> TRUE, json |-> JsonParse(jsonStr).ok,
                 msg |-> JsonParse(jsonStr).msg]

\* TextEncoder on the server side: UTF-8
RECURSIVE Encode(_)
Encode(text) ==
  IF \A i \in 1..Len(text) : text[i] # "U+00E9" THEN text
  ELSE LET i == CHOOSE k \in 1..Len(text) :
                  text[k] = "U+00E9" /\ \A j \in 1..(k - 1) : text[j] # "U+00E9"
       IN  SubSeq(text, 1, i - 1) \o <<"C3", "A9">>
             \o Encode(SubSeq(text, i + 1, Len(text)))

\* What a UTF-8 decoder makes of byte i of `all`: a character, or "" when the
\* byte adds none.  `last` says what is made of a lead byte that ends `all`.
DecodedAt(all, i, last) ==
  IF all[i] = "C3"
    THEN IF i = Len(all) THEN last
         ELSE IF all[i + 1] = "A9" THEN "U+00E9" ELSE "U+FFFD"
  ELSE IF all[i] = "A9"
    THEN IF i > 1 /\ all[i - 1] = "C3" THEN "" ELSE "U+FFFD"
  ELSE all[i]

IsChar(c) == c # ""

\* mutant of Decode: decode(value) without { stream: true }, which replaces an
\* incomplete character at the end of a chunk instead of holding it back
DecodeWithoutStream(held, bytes) ==
  [text |-> SelectSeq([i \in 1..Len(bytes) |-> DecodedAt(bytes, i, "U+FFFD")], IsChar),
   held |-> <<>>]

\* decoder.decode(value, { stream: true }): the text of the bytes, the bytes
\* of an incomplete character being held for the next call
Decode(held, bytes) ==
  LET all == held \o bytes
  IN  [text |-> SelectSeq([i \in 1..Len(all) |-> DecodedAt(all, i, "")], IsChar),
       held |-> IF all # <<>> /\ all[Len(all)] = "C3" THEN <<"C3">> ELSE <<>>]

\* text.split('\n'): the pieces between the newlines, at least one
RECURSIVE Split(_)
Split(text) ==
  IF \A i \in 1..Len(text) : text[i] # "\n" THEN <<text>>
  ELSE LET i == CHOOSE k \in 1..Len(text) :
                  text[k] = "\n" /\ \A j \in 1..(k - 1) : text[j] # "\n"
       IN  <<SubSeq(text, 1, i - 1)>> \o Split(SubSeq(text, i + 1, Len(text)))

\* the callbacks a sequence of lines fires, in order
RECURSIVE Callbacks(_)
Callbacks(lines) ==
  IF lines = <<>> THEN <<>>
  ELSE LET ev == Dispatch(ParseLine(Head(lines)))
       IN  (IF ev.cb = "none" THEN <<>> ELSE <<ev>>) \o Callbacks(Tail(lines))

\* mutant of ReadIteration: the dispatched lines are left in the buffer
ReadIterationKeepsLines(st, bytes) ==
  LET d == Decode(st.pending, bytes)
      pieces == Split(st.buffer \o d.text)
  IN  [pending |-> d.held,
       buffer |-> st.buffer \o d.text,
       log |-> st.log \o Callbacks(SubSeq(pieces, 1, Len(pieces) - 1))]

\* one iteration of the read loop on a chunk of bytes: decode, append to the
\* buffer, split, keep the last piece as the buffer, dispatch the others
ReadIteration(st, bytes) ==
  LET d == Decode(st.pending, bytes)
      pieces == Split(st.buffer \o d.text)
  IN  [pending |-> d.held,
       buffer |-> pieces[Len(pieces)],
       log |-> st.log \o Callbacks(SubSeq(pieces, 1, Len(pieces) - 1))]

\* ------------------------------------------------ useEnrichment: the step ledger
\* prev.findIndex((s) => s.step === step.step), 0 standing for -1
FindIndex(prev, name) ==
  IF \E i \in 1..Len(prev) : prev[i].step = name
    THEN CHOOSE i \in 1..Len(prev) :
           prev[i].step = name /\ \A j \in 1..(i - 1) : prev[j].step # name
    ELSE 0

\* mutant of StepReducer: every event is appended
StepReducerAlwaysAppends(prev, step) == Append(prev, step)

\* mutant of StepReducer: the record found is taken out and the incoming one
\* is appended
StepReducerMovesToEnd(prev, step) ==
  Append(SelectSeq(prev, LAMBDA s : s.step # step.step), step)

\* mutant of StepReducer: as its comment has it, a record is replaced only if
\* it was "running", and the incoming one is appended otherwise
StepReducerAsCommented(prev, step) ==
  LET idx == FindIndex(prev, step.step)
  IN  IF idx >= 1 /\ prev[idx].status = "running" THEN [prev EXCEPT ![idx] = step]
      ELSE Append(prev, step)

\* the updater runPipeline passes to setSteps
StepReducer(prev, step) ==
  LET idx == FindIndex(prev, step.step)
  IN  IF idx >= 1 THEN [prev EXCEPT ![idx] = step]
      ELSE Append(prev, step)


\* -------------------------------------------------------------------- state
VARIABLES
  results,      \* useState: EnrichmentV2Results | null
  steps,        \* useState: PipelineStep[]
  isLoading,    \* useState: boolean
  error,        \* useState: string | null
  duplicate,    \* useState: DuplicateCheckResult | null
  pendingUrl,   \* useState: string | null
  lookups,      \* analyze calls suspended at `await checkDuplicate(domain)`
  runs,         \* runPipeline calls suspended inside `await analyzeUrlV2(...)`
  nCalls,       \* history: how many times analyze was called (one lookup each)
  nRejected,    \* history: how many analyze calls rejected (unhandled by the page)
  nRequests,    \* history: how many pipeline requests were issued
  nLines,       \* history: how many complete lines the streams delivered
  nCallbacks,   \* history: how many times onStep, onResult or onError was invoked
  solo,         \* history: the run during which no other run was in flight (0: none)
  seen,         \* history: step names in first-seen order since steps was emptied
  feed,         \* the step events still to be fed to the ledger on its own
  content,      \* one stream on its own: the lines the server writes, in order
  wire,         \* one stream on its own: the bytes not yet delivered
  pending,      \* TextDecoder: the bytes of an incomplete character it holds back
  buffer,       \* analyzeUrlV2: `buffer`, the text after the last newline
  log,          \* history: the callbacks the read loop has invoked, in order
  streamPc,     \* one stream on its own: "idle", "read" (in the loop) or "done"
  got,          \* history: the complete lines one submission's run was delivered
  typed,        \* EnrichmentForm: the text in the input (useState `url`)
  rest          \* one stream on its own: what the server writes after its last newline

vars == <<results, steps, isLoading, error, duplicate, pendingUrl, lookups, runs,
          nCalls, nRejected, nRequests, nLines, nCallbacks, solo, seen, feed,
          content, wire, pending, buffer, log, streamPc, got, typed, rest>>

\* the variables of the parts taken on their own, which the page leaves alone
offline == <<content, wire, pending, buffer, log, streamPc, got, typed, rest>>

OfflineIdle ==
  /\ content = <<>>
  /\ wire = <<>>
  /\ pending = <<>>
  /\ buffer = <<>>
  /\ log = <<>>
  /\ streamPc = "idle"
  /\ got = <<>>
  /\ typed = <<>>
  /\ rest = <<>>

hookState == <<results, steps, isLoading, error, duplicate, pendingUrl>>

\* the page after its first render
PageInit ==
  /\ results = Null
  /\ steps = <<>>
  /\ isLoading = FALSE
  /\ error = Null
  /\ duplicate = Null
  /\ pendingUrl = Null
  /\ lookups = <<>>
  /\ runs = <<>>
  /\ nCalls = 0
  /\ nRejected = 0
  /\ nRequests = 0
  /\ nLines = 0
  /\ nCallbacks = 0
  /\ solo = 0
  /\ seen = <<>>
  /\ feed = <<>>

Init == PageInit /\ OfflineIdle

\* the variables of the page and its runs
page ==
  <<hookState, lookups, runs, nCalls, nRejected, nRequests, nLines, nCallbacks, solo,
    seen, feed>>

\* the analyze calls awaiting their lookup, and the runs in flight; a call is
\* named by its number, a run by the number of its request
Looking == DOMAIN lookups
Running == DOMAIN runs

Without(f, r) == [x \in (DOMAIN f) \ {r} |-> f[x]]

\* mutant of runPipeline: setSteps([]) is left out
runPipelineKeepsSteps(url, origin) ==
  /\ isLoading' = TRUE
  /\ error' = Null
  /\ results' = Null
  /\ duplicate' = Null
  /\ nRequests' = nRequests + 1
  /\ runs' = [r \in Running \cup {nRequests + 1} |->
                IF r \in Running THEN runs[r]
                ELSE [url |-> Some(url), origin |-> origin, pc |-> "fetch"]]
  /\ solo' = IF Running = {} THEN nRequests + 1 ELSE 0
  /\ UNCHANGED <<steps, seen, nLines, nCallbacks, feed, offline>>

\* ------------------------------------------------------------- runPipeline
\* runPipeline up to its await: the five setters, then analyzeUrlV2 up to
\* `await fetch(...)`, which issues the request with the URL it was given.
\* A run holds the URL of its request while the request is outstanding;
\* origin is the entry point that called runPipeline.
runPipeline(url, origin) ==
  /\ isLoading' = TRUE
  /\ error' = Null
  /\ results' = Null
  /\ steps' = <<>>
  /\ duplicate' = Null
  /\ seen' = <<>>
  /\ nRequests' = nRequests + 1
  /\ runs' = [r \in Running \cup {nRequests + 1} |->
                IF r \in Running THEN runs[r]
                ELSE [url |-> Some(url), origin |-> origin, pc |-> "fetch"]]
  /\ solo' = IF Running = {} THEN nRequests + 1 ELSE 0
  /\ UNCHANGED <<nLines, nCallbacks, feed, offline>>

\* mutant of runPipelineEnd: setIsLoading(false) at the end of the try block
\* instead of in a finally clause
runPipelineEndWithoutFinally(r, failure) ==
  /\ error' = IF failure # Null THEN failure ELSE error
  /\ isLoading' = IF failure # Null THEN isLoading ELSE FALSE
  /\ runs' = Without(runs, r)
  /\ pendingUrl' = IF runs[r].origin = "confirmAnalyze" THEN Null ELSE pendingUrl
  /\ solo' = IF solo = r THEN 0 ELSE solo
  /\ UNCHANGED <<results, steps, duplicate, lookups, nCalls, nRejected, nRequests, nLines,
                 nCallbacks, seen, feed, offline>>

\* runPipeline from the settling of analyzeUrlV2 to its end: the catch clause
\* when it rejected (failure: Some(message)), the finally clause, and, for a run
\* confirmAnalyze started, confirmAnalyze's own continuation setPendingUrl(null),
\* which runs in the same turn of the event loop.
runPipelineEnd(r, failure) ==
  /\ error' = IF failure # Null THEN failure ELSE error
  /\ isLoading' = FALSE
  /\ runs' = Without(runs, r)
  /\ pendingUrl' = IF runs[r].origin = "confirmAnalyze" THEN Null ELSE pendingUrl
  /\ solo' = IF solo = r THEN 0 ELSE solo
  /\ UNCHANGED <<results, steps, duplicate, lookups, nCalls, nRejected, nRequests, nLines,
                 nCallbacks, seen, feed, offline>>

\* ----------------------------------------------------------------- analyze
\* analyze up to `await checkDuplicate(domain)`: the lookup request is issued
analyze(url) ==
  /\ nCalls' = nCalls + 1
  /\ lookups' = [c \in Looking \cup {nCalls + 1} |->
                   IF c \in Looking THEN lookups[c]
                   ELSE [url |-> url, domain |-> ExtractDomain(url)]]
  /\ UNCHANGED <<hookState, runs, nRejected, nRequests, nLines, nCallbacks, solo, seen,
                 feed, offline>>

\* mutant of DupExists: the duplicate check is never taken
DupExistsNever(dupResult) == FALSE

\* `if (dupResult.exists)`
DupExists(dupResult) == dupResult.exists

\* mutant of AnalyzeRunUrl: the run is given the lookup key
AnalyzeRunUrlIsDomain(call) == call.domain

\* the argument analyze passes to runPipeline
AnalyzeRunUrl(call) == call.url

\* analyze from the settling of checkDuplicate: it rejects with it, parks the
\* submission, or starts the run
analyzeResume(c, resp) ==
  LET dupResult == checkDuplicate(resp)
  IN  /\ lookups' = Without(lookups, c)
      /\ IF dupResult.rejected
           THEN UNCHANGED <<hookState, runs, nRequests, solo, seen>>
         ELSE IF DupExists(dupResult.value)
           THEN /\ duplicate' = Some(dupResult.value)
                /\ pendingUrl' = Some(lookups[c].url)
                /\ UNCHANGED <<results, steps, isLoading, error, runs, nRequests,
                               solo, seen>>
         ELSE /\ runPipeline(AnalyzeRunUrl(lookups[c]), "analyze")
              /\ UNCHANGED pendingUrl
      /\ nRejected' = IF dupResult.rejected THEN nRejected + 1 ELSE nRejected
      /\ UNCHANGED <<nCalls, nLines, nCallbacks, feed, offline>>

\* mutant of confirmAnalyze: the run is given the lookup key of the parked URL
confirmAnalyzeWithDomain ==
  IF TruthyStr(pendingUrl)
    THEN /\ duplicate' = Null
         /\ runPipeline(ExtractDomain(pendingUrl[1]), "confirmAnalyze")
         /\ UNCHANGED <<pendingUrl, lookups, nCalls, nRejected>>
    ELSE UNCHANGED vars

\* ---------------------------------------------------------- confirmAnalyze
\* confirmAnalyze up to its await; setPendingUrl(null) follows the run's end
confirmAnalyze ==
  IF TruthyStr(pendingUrl)
    THEN /\ duplicate' = Null
         /\ runPipeline(pendingUrl[1], "confirmAnalyze")
         /\ UNCHANGED <<pendingUrl, lookups, nCalls, nRejected>>
    ELSE UNCHANGED vars

\* mutant of dismissDuplicate: the output of the last run is cleared as well
dismissDuplicateClearsOutput ==
  /\ duplicate' = Null
  /\ pendingUrl' = Null
  /\ results' = Null
  /\ steps' = <<>>
  /\ error' = Null
  /\ seen' = <<>>
  /\ UNCHANGED <<isLoading, lookups, runs, nCalls, nRejected, nRequests,
                 nLines, nCallbacks, solo, feed, offline>>

\* mutant of dismissDuplicate: the pending slot is left as it is
dismissDuplicateKeepsPending ==
  /\ duplicate' = Null
  /\ UNCHANGED <<results, steps, isLoading, error, pendingUrl, lookups, runs, nCalls,
                 nRejected,
                 nRequests, nLines, nCallbacks, solo, seen, feed, offline>>

\* -------------------------------------------------------- dismissDuplicate
dismissDuplicate ==
  /\ duplicate' = Null
  /\ pendingUrl' = Null
  /\ UNCHANGED <<results, steps, isLoading, error, lookups, runs, nCalls, nRejected, nRequests,
                 nLines, nCallbacks, solo, seen, feed, offline>>

\* mutant of reset: the runs in flight are dropped with the state
resetAbortsRuns ==
  /\ results' = Null
  /\ steps' = <<>>
  /\ error' = Null
  /\ duplicate' = Null
  /\ pendingUrl' = Null
  /\ seen' = <<>>
  /\ runs' = <<>>
  /\ UNCHANGED <<isLoading, lookups, nCalls, nRejected, nRequests, nLines, nCallbacks,
                 solo, feed, offline>>

\* ------------------------------------------------------------------- reset
reset ==
  /\ results' = Null
  /\ steps' = <<>>
  /\ error' = Null
  /\ duplicate' = Null
  /\ pendingUrl' = Null
  /\ seen' = <<>>
  /\ UNCHANGED <<isLoading, lookups, runs, nCalls, nRejected, nRequests, nLines, nCallbacks,
                 solo, feed, offline>>

\* ------------------------------------------------- analyzeUrlV2 inside a run
\* `await fetch(...)` settles: the stream is established (the run moves to its
\* read loop) or analyzeUrlV2 rejects.  Reading the error body touches no state
\* of the hook, so it is part of this step.
fetchSettles(r, resp) ==
  /\ runs[r].pc = "fetch"
  /\ LET failure == SetupFailure(resp)
     IN  IF failure # Null
           THEN runPipelineEnd(r, failure)
           ELSE /\ runs' = [runs EXCEPT ![r].pc = "read", ![r].url = Null]
                /\ UNCHANGED <<hookState, lookups, nCalls, nRejected, nRequests, nLines,
                               nCallbacks, solo, seen, feed, offline>>

\* mutant of ApplyCallback: onResult does not store the results
ApplyCallbackDropsResult(st, ev) ==
  IF ev.cb = "onStep"
    THEN [st EXCEPT !.steps = StepReducer(st.steps, ev.step[1]),
                    !.fired = @ + 1,
                    !.seen = IF \E i \in 1..Len(st.seen) : st.seen[i] = ev.step[1].step
                               THEN st.seen ELSE Append(st.seen, ev.step[1].step)]
  ELSE IF ev.cb = "onResult"
    THEN [st EXCEPT !.fired = @ + 1]
  ELSE IF ev.cb = "onError"
    THEN [st EXCEPT !.error = ev.error, !.fired = @ + 1]
  ELSE st

\* the three callbacks runPipeline passes, applied to the hook's state
ApplyCallback(st, ev) ==
  IF ev.cb = "onStep"
    THEN [st EXCEPT !.steps = StepReducer(st.steps, ev.step[1]),
                    !.fired = @ + 1,
                    !.seen = IF \E i \in 1..Len(st.seen) : st.seen[i] = ev.step[1].step
                               THEN st.seen ELSE Append(st.seen, ev.step[1].step)]
  ELSE IF ev.cb = "onResult"
    THEN [st EXCEPT !.results = ev.result, !.fired = @ + 1]
  ELSE IF ev.cb = "onError"
    THEN [st EXCEPT !.error = ev.error, !.fired = @ + 1]
  ELSE st

\* mutant of ApplyLines: the loop is left at the first error event
RECURSIVE ApplyLinesUntilError(_, _)
ApplyLinesUntilError(st, lines) ==
  IF lines = <<>> THEN st
  ELSE IF Dispatch(Head(lines)).cb = "onError"
    THEN ApplyCallback(st, Dispatch(Head(lines)))
  ELSE ApplyLinesUntilError(ApplyCallback(st, Dispatch(Head(lines))), Tail(lines))

\* `for (const line of lines)`: every complete line of a chunk, in order
RECURSIVE ApplyLines(_, _)
ApplyLines(st, lines) ==
  IF lines = <<>> THEN st
  ELSE ApplyLines(ApplyCallback(st, Dispatch(Head(lines))), Tail(lines))

\* the complete lines one chunk can add to the stream
Chunks == SeqsUpTo(Lines, MaxLines)

\* the part of the state the callbacks work on
CallbackState ==
  [steps |-> steps, results |-> results, error |-> error, fired |-> nCallbacks,
   seen |-> seen]

\* `await reader.read()` yields a chunk that completes the lines `chunk`
readChunk(r, chunk) ==
  /\ runs[r].pc = "read"
  /\ nLines + Len(chunk) <= MaxLines
  /\ nLines' = nLines + Len(chunk)
  /\ LET st == ApplyLines(CallbackState, chunk)
     IN  /\ steps' = st.steps
         /\ results' = st.results
         /\ error' = st.error
         /\ seen' = st.seen
         /\ nCallbacks' = st.fired
  /\ UNCHANGED <<isLoading, duplicate, pendingUrl, lookups, runs, nCalls, nRejected, nRequests,
                 solo, feed, offline>>

\* `await reader.read()` yields done: the loop breaks and analyzeUrlV2 resolves
readDone(r) ==
  /\ runs[r].pc = "read"
  /\ runPipelineEnd(r, Null)

\* `await reader.read()` rejects: analyzeUrlV2 rejects with the stream's error
readFails(r) ==
  /\ runs[r].pc = "read"
  /\ runPipelineEnd(r, Some(StreamFailedMessage))

\* ------------------------------------------------------- the page (Home)
\* EnrichmentForm: the submit button is disabled while isLoading or while the
\* text is blank, and handleSubmit passes on the trimmed text
Submit(text) ==
  /\ ~isLoading
  /\ Trim(text) # <<>>
  /\ nCalls < MaxCalls
  /\ analyze(Trim(text))

\* DuplicateWarning is rendered while `duplicate && duplicate.exists`
PromptShown == duplicate # Null /\ duplicate[1].exists

\* ErrorDisplay, with its retry button, is rendered while `error` is truthy
ErrorShown == Truthy(error)

\* the prompt's two buttons and the error's retry button
Confirm == PromptShown /\ confirmAnalyze
Cancel == PromptShown /\ dismissDuplicate
Retry == ErrorShown /\ reset

\* ------------------------------------------------------------ specification
Next ==
  \/ \E text \in Inputs : Submit(text)
  \/ \E c \in Looking : \E resp \in LookupResponses(lookups[c].domain) : analyzeResume(c, resp)
  \/ Confirm
  \/ Cancel
  \/ Retry
  \/ \E r \in Running : \E resp \in PipelineResponses : fetchSettles(r, resp)
  \/ \E r \in Running : \E chunk \in Chunks : readChunk(r, chunk)
  \/ \E r \in Running : readDone(r)
  \/ \E r \in Running : readFails(r)

Spec == Init /\ [][Next]_vars

\* what a run in flight can always do next: the network settles its request,
\* delivers a chunk, ends the stream or fails it
RunProgress ==
  \E r \in Running :
    \/ \E resp \in PipelineResponses : fetchSettles(r, resp)
    \/ \E chunk \in Chunks : readChunk(r, chunk)
    \/ readDone(r)
    \/ readFails(r)

\* the streams end or fail: the network does not leave a request or a read
\* pending for ever
FairSpec == Spec /\ WF_vars(RunProgress)

\* ------------------------------------------------- the step ledger on its own
\* the step records onStep can be given
StepEvents ==
  { [step |-> m.step, status |-> m.status, duration_ms |-> m.duration_ms,
     detail |-> m.detail] : m \in StepMessages }

\* one run in its read loop, nothing applied yet, and the events it will bring
LedgerInit ==
  /\ results = Null
  /\ steps = <<>>
  /\ isLoading = TRUE
  /\ error = Null
  /\ duplicate = Null
  /\ pendingUrl = Null
  /\ lookups = <<>>
  /\ runs = <<[url |-> Null, origin |-> "analyze", pc |-> "read"]>>
  /\ nCalls = 1
  /\ nRejected = 0
  /\ nRequests = 1
  /\ nLines = 0
  /\ nCallbacks = 0
  /\ solo = 1
  /\ seen = <<>>
  /\ feed \in SeqsUpTo(StepEvents, MaxFeed)
  /\ OfflineIdle

\* onStep is invoked with the next step event of the feed
onStep ==
  /\ feed # <<>>
  /\ feed' = Tail(feed)
  /\ got' = Append(got, DataLine([type |-> "step", step |-> Head(feed).step,
                                  status |-> Head(feed).status,
                                  duration_ms |-> Head(feed).duration_ms,
                                  detail |-> Head(feed).detail, data |-> Null]))
  /\ LET st == ApplyCallback(CallbackState,
                 [cb |-> "onStep", step |-> Some(Head(feed)), result |-> Null,
                  error |-> Null])
     IN  /\ steps' = st.steps
         /\ seen' = st.seen
         /\ nCallbacks' = st.fired
  /\ UNCHANGED <<results, isLoading, error, duplicate, pendingUrl, lookups, runs,
                 nCalls, nRejected, nRequests, nLines, solo, content, wire, pending,
                 buffer, log, streamPc, typed, rest>>

LedgerSpec == LedgerInit /\ [][onStep]_vars

\* ------------------------------------------------ the read loop on its own
\* the lines a server writes: a blank line, an empty payload, JSON cut short,
\* an object without type, a type that is no event, and the three events
StepFrame == DataPrefix \o StepText \o <<"\r">>
ResultFrame == DataPrefix \o ResultText
ErrorFrame == DataPrefix \o ErrorText

Frames ==
  { <<>>, DataPrefix \o <<"\r">>, DataPrefix \o BrokenText, DataPrefix \o NoTypeText,
    DataPrefix \o OtherTypeText, StepFrame, ResultFrame, ErrorFrame }

Contents == SeqsUpTo(Frames, MaxFrames)

\* the bytes of a content: every line followed by a newline
RECURSIVE WireOf(_)
WireOf(frames) ==
  IF frames = <<>> THEN <<>>
  ELSE Encode(Head(frames) \o <<"\n">>) \o WireOf(Tail(frames))

\* analyzeUrlV2 entering its read loop: `buffer = ''`, a fresh decoder
StreamStart == [pending |-> <<>>, buffer |-> <<>>, log |-> <<>>]

\* what a stream can end with: nothing, or a result event without its newline
Rests == {<<>>, ResultFrame}

StreamInit ==
  /\ PageInit
  /\ content \in Contents
  /\ rest \in Rests
  /\ rest # <<>> => Len(content) < MaxFrames
  /\ wire = WireOf(content) \o Encode(rest)
  /\ pending = <<>>
  /\ buffer = <<>>
  /\ log = <<>>
  /\ streamPc = "read"
  /\ got = <<>>
  /\ typed = <<>>

\* `await reader.read()` yields the next n bytes of the stream
receive(n) ==
  /\ streamPc = "read"
  /\ n \in 1..Len(wire)
  /\ LET st == ReadIteration([pending |-> pending, buffer |-> buffer, log |-> log],
                             SubSeq(wire, 1, n))
     IN  /\ pending' = st.pending
         /\ buffer' = st.buffer
         /\ log' = st.log
  /\ wire' = SubSeq(wire, n + 1, Len(wire))
  /\ UNCHANGED <<page, content, streamPc, got, typed, rest>>

\* mutant of streamEnds: what is left in the buffer is dispatched as a line
streamEndsFlushesBuffer ==
  /\ streamPc = "read"
  /\ wire = <<>>
  /\ streamPc' = "done"
  /\ log' = log \o Callbacks(<<buffer>>)
  /\ buffer' = <<>>
  /\ UNCHANGED <<page, content, wire, pending, got, typed, rest>>

\* `await reader.read()` yields done: the loop breaks with what is buffered
streamEnds ==
  /\ streamPc = "read"
  /\ wire = <<>>
  /\ streamPc' = "done"
  /\ UNCHANGED <<page, content, wire, pending, buffer, log, got, typed, rest>>

StreamNext == (\E n \in 1..Len(wire) : receive(n)) \/ streamEnds

StreamSpec == StreamInit /\ [][StreamNext]_vars

\* --------------------------------------- one submission on a page in use
\* what an earlier run left on the page
OldStep(status) == [step |-> "old", status |-> status, duration_ms |-> Null, detail |-> Null]
OldResults == Some([domain |-> "old.com"])
OldError == Some("old failure")

\* The page after one submission whose run has ended: with its results, or
\* with the error its stream reported.  Two lines were delivered to that run.
RunInit ==
  /\ \/ results = OldResults /\ steps = <<OldStep("ok")>> /\ error = Null
     \/ results = Null /\ steps = <<OldStep("running")>> /\ error = OldError
  /\ isLoading = FALSE
  /\ duplicate = Null
  /\ pendingUrl = Null
  /\ lookups = <<>>
  /\ runs = <<>>
  /\ nCalls = 1
  /\ nRejected = 0
  /\ nRequests = 1
  /\ nLines = 2
  /\ nCallbacks = 2
  /\ solo = 0
  /\ seen = <<"old">>
  /\ feed = <<>>
  /\ OfflineIdle

\* the one further submission
SubmitOnce(text) == nCalls = 1 /\ Submit(text)

\* an error event whose detail is absent (null) or the empty string
ErrorLineOf(detail) ==
  DataLine([type |-> "error", step |-> "", status |-> "", duration_ms |-> Null,
            detail |-> detail, data |-> Null])

\* the lines of the one run: those of Lines and the two error events above
RunLines == Lines \cup {ErrorLineOf(Null), ErrorLineOf(Some(""))}

\* `await reader.read()` yields a chunk that completes the lines `chunk`
runRead(r, chunk) ==
  /\ runs[r].pc = "read"
  /\ Len(got) + Len(chunk) <= MaxEvents
  /\ got' = got \o chunk
  /\ nLines' = nLines + Len(chunk)
  /\ LET st == ApplyLines(CallbackState, chunk)
     IN  /\ steps' = st.steps
         /\ results' = st.results
         /\ error' = st.error
         /\ seen' = st.seen
         /\ nCallbacks' = st.fired
  /\ UNCHANGED <<isLoading, duplicate, pendingUrl, lookups, runs, nCalls, nRejected,
                 nRequests, solo, feed, content, wire, pending, buffer, log, streamPc,
                 typed, rest>>

RunNext ==
  \/ \E text \in Inputs : SubmitOnce(text)
  \/ \E c \in Looking : \E resp \in LookupResponses(lookups[c].domain) : analyzeResume(c, resp)
  \/ Confirm
  \/ Cancel
  \/ Retry
  \/ \E r \in Running : \E resp \in PipelineResponses : fetchSettles(r, resp)
  \/ \E r \in Running : \E chunk \in SeqsUpTo(RunLines, MaxLines) : runRead(r, chunk)
  \/ \E r \in Running : readDone(r)
  \/ \E r \in Running : readFails(r)

RunSpec == RunInit /\ [][RunNext]_vars

\* ============================================ the form's text, on its own
MaxParts == 3

\* what the operator's text is put together from: "http://", "https://",
\* "HTTP://", "Example.COM", "/path?x=1" and a blank
Tokens ==
  { <<"h","t","t","p",":","/","/">>,
    <<"h","t","t","p","s",":","/","/">>,
    <<"H","T","T","P",":","/","/">>,
    <<"E","x","a","m","p","l","e",".","C","O","M">>,
    <<"/","p","a","t","h","?","x","=","1">>,
    <<" ">> }

RECURSIVE Flatten(_)
Flatten(parts) == IF parts = <<>> THEN <<>> ELSE Head(parts) \o Flatten(Tail(parts))

\* the texts of at most MaxParts tokens
Typed == { Flatten(parts) : parts \in SeqsUpTo(Tokens, MaxParts) }

\* a fresh page with some text typed into the form
DomainInit ==
  /\ PageInit
  /\ typed \in Typed
  /\ rest = <<>>
  /\ content = <<>>
  /\ wire = <<>>
  /\ pending = <<>>
  /\ buffer = <<>>
  /\ log = <<>>
  /\ streamPc = "idle"
  /\ got = <<>>

\* the form is submitted, once, with the text that was typed
handleSubmit == nCalls = 0 /\ Submit(typed)

DomainNext ==
  \/ handleSubmit
  \/ \E c \in Looking : \E resp \in LookupResponses(lookups[c].domain) : analyzeResume(c, resp)
  \/ Confirm
  \/ Cancel
  \/ Retry
  \/ \E r \in Running : \E resp \in PipelineResponses : fetchSettles(r, resp)
  \/ \E r \in Running : \E chunk \in Chunks : readChunk(r, chunk)
  \/ \E r \in Running : readDone(r)
  \/ \E r \in Running : readFails(r)

DomainSpec == DomainInit /\ [][DomainNext]_vars


\* ===================================================== the hook on its own
\* useEnrichment as any component can call it: the five operations it returns
\* are invoked whenever the client likes, with no page in between.  One
\* analyze call is made.
analyzeOnce(text) == nCalls = 0 /\ analyze(Trim(text))

HookNext ==
  \/ \E text \in Inputs : analyzeOnce(text)
  \/ \E c \in Looking : \E resp \in LookupResponses(lookups[c].domain) : analyzeResume(c, resp)
  \/ nRequests < MaxCalls /\ confirmAnalyze
  \/ dismissDuplicate
  \/ reset
  \/ \E r \in Running : \E resp \in PipelineResponses : fetchSettles(r, resp)
  \/ \E r \in Running : \E chunk \in Chunks : readChunk(r, chunk)
  \/ \E r \in Running : readDone(r)
  \/ \E r \in Running : readFails(r)

HookSpec == Init /\ [][HookNext]_vars

\* ==================================================================== claims

\* the step names of the ledger, in ledger order
LedgerKeys == [i \in 1..Len(steps) |-> steps[i].step]

ReportsDuplicate(resp) == resp.sent /\ ResponseOk(resp) /\ resp.json /\ resp.exists

\* the lookup failed: not sent, a non-success status, or an unparsable body
LookupFailed(resp) == ~resp.sent \/ ~ResponseOk(resp) \/ ~resp.json

\* this step issues the pipeline request number nRequests + 1, and no other
IssuesOneRequest ==
  /\ nRequests' = nRequests + 1
  /\ Running' = Running \cup {nRequests + 1}
  /\ \A r \in Running : runs'[r] = runs[r]

IssuesNoRequest == nRequests' = nRequests /\ runs' = runs

\* C2: when the lookup of an analyze call reports exists = true, the step that
\* resumes analyze puts the lookup result in duplicate and the submitted URL in
\* the pending slot, leaves isLoading as it was and issues no pipeline request;
\* and a pipeline request is only ever issued by confirmAnalyze or by an analyze
\* call whose lookup did not report a duplicate.
C2_DuplicateParksTheSubmission ==
  [][ /\ \A c \in Looking : \A resp \in LookupResponses(lookups[c].domain) :
           (ReportsDuplicate(resp) /\ analyzeResume(c, resp)) =>
             /\ duplicate' = Some([exists |-> TRUE, domain |-> resp.domain])
             /\ pendingUrl' = Some(lookups[c].url)
             /\ isLoading' = isLoading
             /\ IssuesNoRequest
      /\ nRequests' # nRequests =>
           \/ Confirm
           \/ \E c \in Looking : \E resp \in LookupResponses(lookups[c].domain) :
                ~ReportsDuplicate(resp) /\ analyzeResume(c, resp)
    ]_vars

\* the prompt is up for "https://Ex.co/p", nothing is loading, nothing was requested
C2_Witness ==
  /\ PromptShown
  /\ duplicate[1].domain = Some(ExtractDomain(UrlA))
  /\ pendingUrl = Some(UrlA)
  /\ ~isLoading
  /\ nRequests = 0

\* C3: confirmAnalyze with a prompt up over a parked submission clears
\* duplicate and issues exactly one pipeline request, for the URL in the pending
\* slot, and makes no duplicate lookup.
C3_ConfirmRunsTheParkedUrl ==
  [][ (PromptShown /\ TruthyStr(pendingUrl) /\ confirmAnalyze) =>
        /\ duplicate' = Null
        /\ IssuesOneRequest
        /\ runs'[nRequests + 1].url = pendingUrl
        /\ nCalls' = nCalls
        /\ lookups' = lookups
    ]_vars

\* the confirmed request for "https://Ex.co/p" is outstanding
C3_Witness ==
  \E r \in Running :
    /\ runs[r].origin = "confirmAnalyze"
    /\ runs[r].url = Some(UrlA)
    /\ pendingUrl = Some(UrlA)
    /\ duplicate = Null

\* C4: dismissDuplicate with a prompt up sets duplicate to null and empties
\* the pending slot without issuing a request; confirmAnalyze with an empty
\* pending slot changes nothing; and a request confirmAnalyze issues is always
\* for the URL that is in the pending slot at that moment, so none is issued
\* for a dismissed submission.
C4_DismissDiscardsTheParkedUrl ==
  [][ /\ (PromptShown /\ dismissDuplicate) =>
           duplicate' = Null /\ pendingUrl' = Null /\ IssuesNoRequest
      /\ (pendingUrl = Null /\ Confirm) => UNCHANGED vars
      /\ \A r \in Running' \ Running :
           runs'[r].origin = "confirmAnalyze" =>
             pendingUrl # Null /\ runs'[r].url = pendingUrl
    ]_vars

\* the one submission made was parked (its lookup is over, analyze did not
\* reject and no request was issued) and neither the prompt nor the parked URL
\* is left
C4_Witness ==
  /\ nCalls = 1
  /\ Looking = {}
  /\ nRejected = 0
  /\ duplicate = Null
  /\ pendingUrl = Null
  /\ nRequests = 0

\* C5: whenever the lookup fails, analyze does not reject and goes on to
\* start the run for the submitted URL, with no prompt and no error.
C5_LookupFailureStartsTheRun ==
  [][ \A c \in Looking : \A resp \in LookupResponses(lookups[c].domain) :
        (LookupFailed(resp) /\ analyzeResume(c, resp)) =>
          /\ nRejected' = nRejected
          /\ IssuesOneRequest
          /\ runs'[nRequests + 1].url = Some(lookups[c].url)
          /\ duplicate' = Null
          /\ error' = Null
    ]_vars

\* C6: when the lookup reports exists = false, the step that resumes analyze
\* issues exactly one pipeline request, and its url is the string analyze was
\* given, not the lookup key derived from it.
C6_NoDuplicateRunsTheRawUrl ==
  [][ \A c \in Looking : \A resp \in LookupResponses(lookups[c].domain) :
        (/\ ~checkDuplicate(resp).rejected
         /\ ~checkDuplicate(resp).value.exists
         /\ analyzeResume(c, resp)) =>
          /\ IssuesOneRequest
          /\ runs'[nRequests + 1].url = Some(lookups[c].url)
          /\ runs'[nRequests + 1].origin = "analyze"
    ]_vars

\* the request analyze issued for "https://Ex.co/p" is outstanding; its lookup
\* key was "ex.co"
C6_Witness ==
  \E r \in Running :
    /\ runs[r].origin = "analyze"
    /\ runs[r].url = Some(UrlA)
    /\ ExtractDomain(UrlA) # UrlA

\* C7: the step that ends a run leaves isLoading false, however the run ends,
\* and, the streams ending or failing, isLoading does not stay true for ever.
C7_EveryRunEndsNotLoading ==
  /\ [][ \A r \in Running : r \notin Running' => isLoading' = FALSE ]_vars
  /\ isLoading ~> ~isLoading

\* a run has ended by a failed read, and nothing is loading
C7_Witness ==
  /\ nRequests = 1
  /\ Running = {}
  /\ error = Some(StreamFailedMessage)
  /\ ~isLoading

\* C8: after reset, all five fields have their initial values and nothing is
\* pending.
C8_ResetRestoresTheInitialState ==
  [][ Retry =>
        /\ results' = Null
        /\ steps' = <<>>
        /\ isLoading' = FALSE
        /\ error' = Null
        /\ duplicate' = Null
        /\ pendingUrl' = Null
    ]_vars

\* the request got a non-success status, or a response without a readable body
NotEstablished(resp) == resp.sent /\ (~ResponseOk(resp) \/ ~resp.body)

\* C9: when the request of a run gets a non-success status or a response
\* without a body, that step ends the run with no callback invoked, error set to
\* the failure message, isLoading false, and results and steps as the run's
\* start left them (null and empty when no other run was in flight meanwhile);
\* the message is "boom" for status 500 with body {"detail":"boom"} and
\* "No response body" for a missing body.
C9_SetupFailureRejects ==
  [][ \A r \in Running : \A resp \in PipelineResponses :
        (NotEstablished(resp) /\ fetchSettles(r, resp)) =>
          /\ r \notin Running'
          /\ nCallbacks' = nCallbacks
          /\ error' # Null
          /\ isLoading' = FALSE
          /\ results' = results /\ steps' = steps
          /\ solo = r => results' = Null /\ steps' = <<>>
          /\ (resp.status = 500 /\ resp.json = "object" /\ resp.detail = Some("boom"))
               => error' = Some("boom")
          /\ (ResponseOk(resp) /\ ~resp.body) => error' = Some("No response body")
    ]_vars

\* a run has failed with "boom" and left nothing else behind
C9_Witness ==
  /\ nRequests = 1
  /\ Running = {}
  /\ error = Some("boom")
  /\ results = Null
  /\ steps = <<>>
  /\ ~isLoading
  /\ nCallbacks = 0

\* the body of a failed response gives no usable detail
NotJson(resp) == resp.json = "invalid"
ObjectWithoutDetail(resp) == resp.json = "object" /\ ~Truthy(resp.detail)

\* C10 as stated: a non-success status without a usable detail sets error to
\* "Analysis failed".
C10_GenericMessageWithoutDetail ==
  [][ \A r \in Running : \A resp \in PipelineResponses :
        (/\ resp.sent /\ ~ResponseOk(resp)
         /\ NotJson(resp) \/ ObjectWithoutDetail(resp)
         /\ fetchSettles(r, resp)) =>
          error' = Some("Analysis failed")
    ]_vars

\* C10 as amended: a non-success status sets error to "Analysis failed" when
\* the body is not JSON, and to "HTTP <status>: Analysis failed" when the body
\* is a JSON object whose detail is missing or empty.
C10_FallbackMessages ==
  [][ \A r \in Running : \A resp \in PipelineResponses :
        (resp.sent /\ ~ResponseOk(resp) /\ fetchSettles(r, resp)) =>
          /\ NotJson(resp) => error' = Some("Analysis failed")
          /\ (ObjectWithoutDetail(resp) /\ resp.status = 500)
               => error' = Some("HTTP 500: Analysis failed")
          /\ (ObjectWithoutDetail(resp) /\ resp.status = 404)
               => error' = Some("HTTP 404: Analysis failed")
    ]_vars

\* a run has failed on a 404 whose body had no detail
C10_Witness ==
  /\ Running = {}
  /\ ~isLoading
  /\ error = Some("HTTP 404: Analysis failed")


\* ------------------------------------------------------- the read loop, claims
\* the bytes of the content that have been delivered
Delivered ==
  LET all == WireOf(content) \o Encode(rest)
  IN  SubSeq(all, 1, Len(all) - Len(wire))

\* how many lines of the content have been delivered with their newline
FramesDone ==
  CHOOSE k \in 0..Len(content) :
    /\ Len(WireOf(SubSeq(content, 1, k))) <= Len(Delivered)
    /\ k < Len(content) => Len(WireOf(SubSeq(content, 1, k + 1))) > Len(Delivered)

\* the lines that carry no event: no "data: " prefix, an empty payload, invalid
\* JSON, no type, a type that is none of step, result, error
Malformed ==
  { <<>>, DataPrefix \o <<"\r">>, DataPrefix \o BrokenText, DataPrefix \o NoTypeText,
    DataPrefix \o OtherTypeText }

IsEvent(frame) == frame \notin Malformed

\* the callback each of the three event lines is to fire
ExpectedCallback(frame) ==
  IF frame = StepFrame
    THEN [cb |-> "onStep",
          step |-> Some([step |-> "a", status |-> "", duration_ms |-> Null,
                         detail |-> Null]),
          result |-> Null, error |-> Null]
  ELSE IF frame = ResultFrame
    THEN [cb |-> "onResult", step |-> Null, result |-> Some([domain |-> ""]),
          error |-> Null]
  ELSE [cb |-> "onError", step |-> Null, result |-> Null, error |-> Some("U+00E9")]

\* C11: a line without the "data: " prefix, with an empty payload, with
\* invalid JSON or with a missing or unknown type fires no callback (the
\* callbacks fired are as many as the event lines delivered), and when the
\* stream has ended the event of every event line has been delivered,
\* whatever lines came before it.
C11_MalformedLinesAreSkipped ==
  streamPc # "idle" =>
    /\ Len(log) = Len(SelectSeq(SubSeq(content, 1, FramesDone), IsEvent))
    /\ streamPc = "done" =>
         \A i \in 1..Len(content) :
           IsEvent(content[i]) => \E j \in 1..Len(log) : log[j] = ExpectedCallback(content[i])

\* a stream of a line of invalid JSON and then a step event has ended, and
\* onStep was the one callback
C11_Witness ==
  /\ streamPc = "done"
  /\ content = <<DataPrefix \o BrokenText, StepFrame>>
  /\ Len(log) = 1
  /\ log[1].cb = "onStep"

\* C12: however the bytes delivered so far were cut into chunks, the
\* callbacks invoked are those of the same bytes delivered as a single chunk.
C12_ChunkingDoesNotMatter ==
  streamPc # "idle" => log = ReadIteration(StreamStart, Delivered).log

\* a chunk has ended between the two bytes of a character, inside the JSON
\* body of a line that follows a delivered event
C12_Witness ==
  /\ pending = <<"C3">>
  /\ IsPrefix(DataPrefix \o <<"{">>, buffer)
  /\ Len(log) = 1

\* C19: the callbacks invoked are, in order and once each, the events of the
\* event lines delivered so far: the j-th callback is the event of the j-th
\* event line of the stream.
C19_EventsInWireOrderOnce ==
  streamPc # "idle" =>
    LET events == SelectSeq(content, IsEvent)
    IN  /\ Len(log) <= Len(events)
        /\ \A j \in 1..Len(log) : log[j] = ExpectedCallback(events[j])
        /\ Len(log) = Len(SelectSeq(SubSeq(content, 1, FramesDone), IsEvent))

\* a result event and an error event, delivered in that order; the second
\* line is partly in the buffer
C19_Witness ==
  /\ content = <<ResultFrame, ErrorFrame>>
  /\ log = <<ExpectedCallback(ResultFrame)>>
  /\ buffer # <<>>
  /\ wire # <<>>


\* --------------------------------------------------- one submission, claims
IsStepLine(l) == l.prefix /\ l.json /\ l.msg.type = "step"
IsResultLine(l) == l.prefix /\ l.json /\ l.msg.type = "result"
IsErrorLine(l) == l.prefix /\ l.json /\ l.msg.type = "error"

\* the ledger after the step events among `lines`, starting from `ledger`
RECURSIVE FoldSteps(_, _)
FoldSteps(ledger, lines) ==
  IF lines = <<>> THEN ledger
  ELSE FoldSteps(IF IsStepLine(Head(lines))
                   THEN StepReducer(ledger,
                          [step |-> Head(lines).msg.step, status |-> Head(lines).msg.status,
                           duration_ms |-> Head(lines).msg.duration_ms,
                           detail |-> Head(lines).msg.detail])
                   ELSE ledger,
                 Tail(lines))

\* results and error after the result and error events among `lines`
LastResult(before, lines) ==
  LET rs == SelectSeq(lines, IsResultLine)
  IN  IF rs = <<>> THEN before ELSE rs[Len(rs)].msg.data

LastError(before, lines) ==
  LET es == SelectSeq(lines, IsErrorLine)
  IN  IF es = <<>> THEN before
      ELSE IF es[Len(es)].msg.detail \in {Null, Some("")} THEN Some("Unknown pipeline error")
      ELSE es[Len(es)].msg.detail

\* the lines the step that is being taken delivers
NewLines == SubSeq(got', Len(got) + 1, Len(got'))

ScrapeRunning == DataLine(StepMsg("scrape", "running", Null))
ScrapeOk == DataLine(StepMsg("scrape", "ok", Some(120)))
ResultLine ==
  DataLine([type |-> "result", step |-> "", status |-> "", duration_ms |-> Null,
            detail |-> Null, data |-> Some([domain |-> "x.com"])])
ErrorLine ==
  DataLine([type |-> "error", step |-> "", status |-> "", duration_ms |-> Null,
            detail |-> Some("pipeline failed"), data |-> Null])

\* C13: when the stream of a run ends after only step and result events, the
\* run ends with error null, isLoading false, results the data of the last
\* result event and steps the ledger reducer folded over the step events; for
\* the stream step(scrape, running), step(scrape, ok, 120), result(data) that is
\* the one record (scrape, ok, 120) and that data.
C13_RunOfStepsAndResults ==
  [][ \A r \in Running :
        (readDone(r) /\ \A i \in 1..Len(got) : IsStepLine(got[i]) \/ IsResultLine(got[i])) =>
          /\ error' = Null
          /\ isLoading' = FALSE
          /\ results' = LastResult(Null, got)
          /\ steps' = FoldSteps(<<>>, got)
          /\ got = <<ScrapeRunning, ScrapeOk, ResultLine>> =>
               /\ steps' = <<[step |-> "scrape", status |-> "ok", duration_ms |-> Some(120),
                              detail |-> Null]>>
               /\ results' = Some([domain |-> "x.com"])
    ]_vars

\* the run of the three-event stream has ended
C13_Witness ==
  /\ Running = {}
  /\ nRequests = 2
  /\ got = <<ScrapeRunning, ScrapeOk, ResultLine>>
  /\ Len(steps) = 1
  /\ steps[1].status = "ok"
  /\ results = Some([domain |-> "x.com"])
  /\ error = Null
  /\ ~isLoading

\* what an earlier run left is not on the page
NoLeftover ==
  /\ results # OldResults
  /\ error # OldError
  /\ \A i \in 1..Len(steps) : steps[i].step # "old"

\* C17: the step that issues a pipeline request, from analyze or from
\* confirmAnalyze, leaves isLoading true and error, results, steps and duplicate
\* cleared; and from then on nothing the earlier run left is on the page.
C17_RunStartsFromClearedState ==
  /\ [][ nRequests' = nRequests + 1 =>
           /\ isLoading' = TRUE
           /\ error' = Null
           /\ results' = Null
           /\ steps' = <<>>
           /\ duplicate' = Null ]_vars
  /\ [](nRequests = 2 => NoLeftover)

\* a confirmed run on a page that showed an earlier run has had its first
\* events applied
C17_Witness ==
  \E r \in Running :
    /\ runs[r].origin = "confirmAnalyze"
    /\ nRequests = 2
    /\ got # <<>>
    /\ steps # <<>>

\* C18: a chunk delivered to a run leaves it in flight with isLoading true,
\* whether or not an error event is in it or was applied before; error becomes
\* the detail of the last error event of the chunk, and every step and result
\* event of the chunk, before or after an error event, is applied.
C18_ErrorEventDoesNotEndTheRun ==
  [][ got' # got =>
        /\ isLoading /\ isLoading'
        /\ runs' = runs
        /\ error' = LastError(error, NewLines)
        /\ steps' = FoldSteps(steps, NewLines)
        /\ results' = LastResult(results, NewLines)
    ]_vars

\* an error event, then a step and a result event, all applied, the run
\* still in flight
C18_Witness ==
  /\ Running # {}
  /\ isLoading
  /\ got = <<ErrorLine, ScrapeRunning, ResultLine>>
  /\ error = Some("pipeline failed")
  /\ Len(steps) = 1
  /\ results = Some([domain |-> "x.com"])

\* a callback has been invoked for one of `lines`
Fired(lines) ==
  \E i \in 1..Len(lines) : IsStepLine(lines[i]) \/ IsResultLine(lines[i]) \/ IsErrorLine(lines[i])

\* C20: reset clears results, steps, error, duplicate and the pending slot
\* and leaves every run in flight where it is; and in a run whose state was
\* cleared after events had been applied, the events of the next chunk are
\* applied as to an empty state, with no analyze call.
C20_ResetDoesNotStopTheRead ==
  [][ /\ Retry =>
           /\ results' = Null /\ steps' = <<>> /\ error' = Null
           /\ duplicate' = Null /\ pendingUrl' = Null
           /\ runs' = runs
           /\ got' = got
      /\ (/\ got' # got
          /\ Fired(got)
          /\ results = Null /\ steps = <<>> /\ error = Null) =>
           /\ nCalls' = nCalls
           /\ steps' = FoldSteps(<<>>, NewLines)
           /\ results' = LastResult(Null, NewLines)
           /\ error' = LastError(Null, NewLines)
    ]_vars

\* the error event was cleared by reset, and the step event that came after
\* is on the page, the run still in flight
C20_Witness ==
  /\ Running # {}
  /\ nCalls = 2
  /\ got = <<ErrorLine, ScrapeRunning>>
  /\ error = Null
  /\ Len(steps) = 1


\* ------------------------------------------------------ the form, claims
\* C15: analyze is invoked, through the form, only in a state in which
\* isLoading is false and no duplicate prompt is outstanding.
C15_FormDisabledWhileBusy ==
  [][ (\E text \in Inputs : Submit(text)) => ~isLoading /\ duplicate = Null ]_vars

\* C16: with the operations invoked only as the page allows, there is never
\* more than one pipeline run in flight.
C16_OneRunInFlight == Cardinality(Running) <= 1


\* ------------------------------------------------- the lookup key, claims
ExampleUrl == Flatten(<<<<"h","t","t","p","s",":","/","/">>,
                        <<"E","x","a","m","p","l","e",".","C","O","M">>,
                        <<"/","p","a","t","h","?","x","=","1">>>>)

Contains(s, c) == \E i \in 1..Len(s) : s[i] = c

\* the key begins with a scheme name and its colon
HasScheme(k) ==
  \/ IsPrefix(<<"h","t","t","p",":">>, k)
  \/ IsPrefix(<<"h","t","t","p","s",":">>, k)

\* C14: the domain sent to the duplicate lookup is the text passed to analyze
\* with a leading http:// or https:// removed, cut at the first "/" and
\* lowercased; "https://Example.COM/path?x=1" gives "example.com"; and the key
\* holds no scheme, no path and no uppercase character.
C14_LookupKeyIsTheBareDomain ==
  \A c \in Looking :
    LET url == lookups[c].url
        k == lookups[c].domain
    IN  /\ k = ToLowerCase(BeforeSlash(StripScheme(url)))
        /\ url = ExampleUrl => k = <<"e","x","a","m","p","l","e",".","c","o","m">>
        /\ ~HasScheme(k)
        /\ ~Contains(k, "/")
        /\ \A i \in 1..Len(Upper) : ~Contains(k, Upper[i])


\* ------------------------------------------------ the step ledger, claims
\* the positions of the ledger that hold a record of the step name
Positions(ledger, name) == { i \in 1..Len(ledger) : ledger[i].step = name }

C24_UnterminatedLineIsDiscarded ==
  /\ streamPc # "idle" => Len(log) <= Len(SelectSeq(SubSeq(content, 1, FramesDone), IsEvent))
  /\ streamPc = "done" =>
       /\ log = Callbacks(content)
       /\ buffer = rest

\* a stream of a step event and then a result event without a newline has
\* ended: onStep was the one callback
C24_Witness ==
  /\ streamPc = "done"
  /\ content = <<StepFrame>>
  /\ rest = ResultFrame
  /\ buffer = ResultFrame
  /\ Len(log) = 1
  /\ log[1].cb = "onStep"


\* ------------------------------------------------------ dispatch, claims
\* C25: a chunk fires one callback for each of its well-formed event lines
\* and none for the others; and a chunk of one such line applies onStep with
\* the line's step, status, duration_ms and detail when its type is step,
\* onResult with its data when result, and onError with its detail, or with
\* "Unknown pipeline error" when the detail is absent or empty, when error.
C25_OneCallbackByType ==
  [][ got' # got =>
        /\ nCallbacks' = nCallbacks + Len(SelectSeq(NewLines,
                           LAMBDA l : IsStepLine(l) \/ IsResultLine(l) \/ IsErrorLine(l)))
        /\ Len(NewLines) = 1 =>
             LET l == NewLines[1]
             IN  /\ IsStepLine(l) =>
                      /\ steps' = StepReducer(steps,
                                    [step |-> l.msg.step, status |-> l.msg.status,
                                     duration_ms |-> l.msg.duration_ms,
                                     detail |-> l.msg.detail])
                      /\ results' = results /\ error' = error
                 /\ IsResultLine(l) =>
                      results' = l.msg.data /\ steps' = steps /\ error' = error
                 /\ IsErrorLine(l) =>
                      /\ error' = IF l.msg.detail = Null \/ l.msg.detail = Some("")
                                    THEN Some("Unknown pipeline error")
                                    ELSE l.msg.detail
                      /\ steps' = steps /\ results' = results
                 /\ ~(IsStepLine(l) \/ IsResultLine(l) \/ IsErrorLine(l)) =>
                      steps' = steps /\ results' = results /\ error' = error
    ]_vars

\* an error event without detail was the one line delivered: the generic
\* message is the error
C25_Witness ==
  /\ Running # {}
  /\ got = <<ErrorLineOf(Null)>>
  /\ nCallbacks = 3
  /\ error = Some("Unknown pipeline error")


\* ------------------------------------------------ the page's state, claims
\* C26: whenever duplicate is set, the pending slot holds a submission.
C26_PromptHasPendingSubmission == duplicate # Null => pendingUrl # Null

\* C27: isLoading is true exactly when some pipeline run is in flight.
C27_LoadingIffRunInFlight == isLoading <=> Running # {}

\* C29: the callbacks that change steps, results or error are those of the
\* run started last: a chunk that fires a callback, or a failure that sets
\* error, belongs to the run with the highest request number.
C29_OnlyTheLatestRunWrites ==
  [][ \A r \in Running :
        (/\ \/ \E chunk \in Chunks : readChunk(r, chunk)
            \/ readFails(r)
            \/ \E resp \in PipelineResponses : fetchSettles(r, resp)
         /\ <<steps, results, error>>' # <<steps, results, error>>) => r = nRequests
    ]_vars


\* ------------------------------------------------ the duplicate gate, claims
\* C30: the steps of the duplicate gate leave the output of the previous run
\* as it is: the analyze call that issues the lookup, the lookup's answer that
\* parks the submission, and dismissDuplicate change none of results, steps,
\* error and isLoading; and the results of the previous run stay on the page,
\* with its steps, until a new run starts.
C30_GateKeepsPreviousOutput ==
  /\ [][ (\/ nCalls' = nCalls + 1
          \/ \E c \in Looking : \E resp \in LookupResponses(lookups[c].domain) :
               analyzeResume(c, resp) /\ ReportsDuplicate(resp)
          \/ Cancel)
         => UNCHANGED <<results, steps, error, isLoading>> ]_vars
  /\ []((nRequests = 1 /\ results # Null) =>
          /\ results = OldResults
          /\ steps = <<OldStep("ok")>>
          /\ error = Null
          /\ ~isLoading)

\* the submission was parked and the prompt dismissed: the previous run's
\* results and steps are still on the page
C30_Witness ==
  /\ nCalls = 2
  /\ nRejected = 0
  /\ nRequests = 1
  /\ lookups = <<>>
  /\ duplicate = Null
  /\ pendingUrl = Null
  /\ results = OldResults
  /\ steps = <<OldStep("ok")>>
  /\ ~isLoading


\* ------------------------------------------- confirm and dismiss, claims
\* C21: with the pending slot empty, confirmAnalyze issues no pipeline
\* request and changes no field of the state, and dismissDuplicate leaves
\* every field of the state as it was.
C21_NothingPendingIsANoOp ==
  [][ pendingUrl = Null =>
        /\ Confirm => (nRequests' = nRequests /\ UNCHANGED hookState)
        /\ Cancel => UNCHANGED hookState
    ]_vars

\* C28: a confirmAnalyze call made while the run of an earlier confirmAnalyze
\* call is in flight issues no pipeline request, and the one prompt of one
\* analyze call leads to one pipeline request at most.
C28_ParkedSubmissionConsumedOnce ==
  /\ [][ (confirmAnalyze /\ \E r \in Running : runs[r].origin = "confirmAnalyze")
         => nRequests' = nRequests ]_vars
  /\ [](nRequests <= 1)

====
